---- MODULE Spec2Model ----
(***************************************************************************)
(* The three README patchers of the repository: fix_encoding.py,           *)
(* fix_encoding2.py and final_fixes.py.  Each is a straight-line script    *)
(* that reads README.md as text, rewrites the text held in the global      *)
(* `content` by literal and regular-expression substitutions, writes it    *)
(* back and prints a confirmation line.                                    *)
(*                                                                         *)
(* Text is modelled as Python models it: a str is a sequence of Unicode    *)
(* code points, here a sequence of integers.  The file README.md is        *)
(* modelled by the code points its bytes decode to (UTF-8 decoding and     *)
(* encoding are inverse on text that decodes at all; a file that does not  *)
(* decode makes the read fail).  The newline translation of text-mode      *)
(* files is not the identity and is modelled by what it does.              *)
(***************************************************************************)
EXTENDS Integers, Sequences, FiniteSets

(***************************************************************************)
(* Bounds of the model.                                                    *)
(***************************************************************************)
\* the number of script runs started in one behaviour
MaxRuns == 2
\* the number of '---' dividers that follow the Development section of an input
MaxDividers == 2
\* the number of segments an input of fix_encoding.py / fix_encoding2.py is made of
MaxSegs == 3

(***************************************************************************)
(* Python str operations on code-point sequences.                          *)
(***************************************************************************)
\* the positions i >= from at which p occurs in s
Occurrences(s, p, from) ==
  {i \in from..(Len(s) - Len(p) + 1) : s[i] = p[1] /\ SubSeq(s, i, i + Len(p) - 1) = p}

\* the least element of a non-empty set of positions
Least(S) == CHOOSE i \in S : \A j \in S : i <= j

\* str.find / the left-to-right scan of a literal: the first position >= from
\* at which p occurs in s, 0 when there is none
Find(s, p, from) ==
  LET occ == Occurrences(s, p, from)
  IN  IF occ = {} THEN 0 ELSE Least(occ)

\* `p in s`
Contains(s, p) == Find(s, p, 1) # 0

\* str.replace(old, new) from position `from` on: every non-overlapping
\* occurrence of old, scanning left to right, is replaced by new
RECURSIVE ReplaceFrom(_, _, _, _)
ReplaceFrom(s, old, new, from) ==
  LET i == Find(s, old, from)
  IN  IF i = 0
      THEN SubSeq(s, from, Len(s))
      ELSE SubSeq(s, from, i - 1) \o new \o ReplaceFrom(s, old, new, i + Len(old))

Replace(s, old, new) == ReplaceFrom(s, old, new, 1)

\* the number of occurrences of p in s
Count(s, p) == Cardinality(Occurrences(s, p, 1))

\* the concatenation of a sequence of texts
RECURSIVE Concat(_)
Concat(ss) == IF ss = <<>> THEN <<>> ELSE Head(ss) \o Concat(Tail(ss))

\* n copies of s
RECURSIVE Repeat(_, _)
Repeat(s, n) == IF n = 0 THEN <<>> ELSE s \o Repeat(s, n - 1)

\* the code points the regular-expression class \s matches in a str pattern
Whitespace ==
  (9..13) \cup (28..32) \cup {133, 160, 5760} \cup (8192..8202)
    \cup {8232, 8233, 8239, 8287, 12288}

\* the first position >= i of s that holds no whitespace, Len(s) + 1 when
\* only whitespace follows: where the greedy \s* stops
SkipSpaces(s, i) ==
  LET rest == {x \in i..Len(s) : s[x] \notin Whitespace}
  IN  IF rest = {} THEN Len(s) + 1 ELSE Least(rest)

\* the line feed and the carriage return + line feed line endings
LF == <<10>>
CRLF == <<13, 10>>
CRonly == <<13>>

\* open(..., 'r') with newline=None: the universal-newlines translation of
\* the text read; '\r\n' and a lone '\r' both become '\n'
UniversalNewlines(s) == Replace(Replace(s, CRLF, LF), CRonly, LF)

\* open(..., 'w') with newline=None: every '\n' written becomes os.linesep
WriteNewlines(s, sep) == Replace(s, LF, sep)

(***************************************************************************)
(* dict displays: a key written twice keeps its first position and takes   *)
(* its last value; {**a, **b} is a updated with the items of b.            *)
(***************************************************************************)
\* d[k] = v on a dict held as a sequence of <<key, value>> items
DictPut(d, k, v) ==
  IF \E i \in 1..Len(d) : d[i][1] = k
  THEN [i \in 1..Len(d) |-> IF d[i][1] = k THEN <<k, v>> ELSE d[i]]
  ELSE Append(d, <<k, v>>)

\* d.update(items)
RECURSIVE DictUpdate(_, _)
DictUpdate(d, items) ==
  IF items = <<>> THEN d
  ELSE DictUpdate(DictPut(d, Head(items)[1], Head(items)[2]), Tail(items))

(***************************************************************************)
(* The literals of the three scripts, as code points.                      *)
(***************************************************************************)
\* fix_encoding.py:9-55, the items of the dict display replacements, in authored order,
\* each a pair <<corrupted, correct>> of code-point sequences
replacements_items ==
  <<
    \* line 11: "<U+00C3><U+00B0><U+00C5><U+00B8><U+00C2><U+00A7>" -> "<U+011F><U+0178><U+00A7><U+00A0>"
    << <<195, 176, 197, 184, 194, 167>>,
      <<287, 376, 167, 160>> >>,
    \* line 12: "<U+00C3><U+00B0><U+00C5><U+00B8><U+00E2><U+20AC><U+00E2><U+20AC>" -> "<U+011F><U+0178><U+201D><U+201E>"
    << <<195, 176, 197, 184, 226, 8364, 226, 8364>>,
      <<287, 376, 8221, 8222>> >>,
    \* line 13: "<U+00C3><U+00B0><U+00C5><U+00B8><U+00C2><U+00A4><U+00E2><U+20AC><U+201C>" -> "<U+011F><U+0178><U+00A4><U+2013>"
    << <<195, 176, 197, 184, 194, 164, 226, 8364, 8220>>,
      <<287, 376, 164, 8211>> >>,
    \* line 14: "<U+00C3><U+00B0><U+00C5><U+00B8><U+00C5><U+00BD><U+00C2><U+00AF>" -> "<U+011F><U+0178><U+00AF>"
    << <<195, 176, 197, 184, 197, 189, 194, 175>>,
      <<287, 376, 175>> >>,
    \* line 15: "<U+00C3><U+00B0><U+00C5><U+00B8><U+00C5><U+2019><U+00C2>" -> "<U+011F><U+0178><U+0152>"
    << <<195, 176, 197, 184, 197, 8217, 194>>,
      <<287, 376, 338>> >>,
    \* line 16: "<U+00C3><U+00B0><U+00C5><U+00B8><U+00E2><U+20AC><U+00C2><U+00AC>" -> "<U+011F><U+0178><U+201D><U+00AC>"
    << <<195, 176, 197, 184, 226, 8364, 194, 172>>,
      <<287, 376, 8221, 172>> >>,
    \* line 17: "<U+00C3><U+00B0><U+00C5><U+00B8><U+00E2><U+20AC><U+0153><U+00C5><U+00A0>" -> "<U+011F><U+0178><U+201C><U+0160>"
    << <<195, 176, 197, 184, 226, 8364, 339, 197, 160>>,
      <<287, 376, 8220, 352>> >>,
    \* line 18: "<U+00C3><U+00B0><U+00C5><U+00B8><U+00C5><U+2019><U+00C2>" -> "<U+011F><U+0178><U+0152>"
    << <<195, 176, 197, 184, 197, 8217, 194>>,
      <<287, 376, 338>> >>,
    \* line 19: "<U+00C3><U+00B0><U+00C5><U+00B8><U+00C2><U+00E2><U+20AC><U+00BA>" -> "<U+011F><U+0178><U+203A>"
    << <<195, 176, 197, 184, 194, 226, 8364, 186>>,
      <<287, 376, 8250>> >>,
    \* line 20: "<U+00C3><U+00B0><U+00C5><U+00B8><U+00E2><U+20AC><U+2122><U+00C2><U+00BE>" -> "<U+011F><U+0178><U+2019><U+00BE>"
    << <<195, 176, 197, 184, 226, 8364, 8482, 194, 190>>,
      <<287, 376, 8217, 190>> >>,
    \* line 21: "<U+00C3><U+00B0><U+00C5><U+00B8><U+00E2><U+20AC><U+00BA><U+00C2><U+00A1><U+00C3><U+00AF><U+00C2><U+00B8><U+00C2>" -> "<U+011F><U+0178><U+203A><U+00A1><U+00EF><U+00B8>"
    << <<195, 176, 197, 184, 226, 8364, 186, 194, 161, 195, 175, 194, 184, 194>>,
      <<287, 376, 8250, 161, 239, 184>> >>,
    \* line 22: "<U+00C3><U+00B0><U+00C5><U+00B8><U+00E2><U+20AC><U+0153><U+00CB><U+2020>" -> "<U+011F><U+0178><U+201C><U+02C6>"
    << <<195, 176, 197, 184, 226, 8364, 339, 203, 8224>>,
      <<287, 376, 8220, 710>> >>,
    \* line 23: "<U+00C3><U+00B0><U+00C5><U+00B8><U+00C5><U+00A1><U+00E2><U+201A><U+00AC>" -> "<U+011F><U+0178><U+0161><U+20AC>"
    << <<195, 176, 197, 184, 197, 161, 226, 8218, 172>>,
      <<287, 376, 353, 8364>> >>,
    \* line 24: "<U+00C3><U+00B0><U+00C5><U+00B8><U+00C5><U+00BD><U+00C2><U+00AE>" -> "<U+011F><U+0178><U+00AE>"
    << <<195, 176, 197, 184, 197, 189, 194, 174>>,
      <<287, 376, 174>> >>,
    \* line 25: "<U+00C3><U+00B0><U+00C5><U+00B8><U+00E2><U+20AC><U+0153><U+00E2><U+20AC><U+00B9>" -> "<U+011F><U+0178><U+201C><U+2039>"
    << <<195, 176, 197, 184, 226, 8364, 339, 226, 8364, 185>>,
      <<287, 376, 8220, 8249>> >>,
    \* line 28: "<U+00C3><U+00A2><U+00E2><U+201A><U+00AC><U+00C2><U+00A2>" -> "<U+00E2><U+20AC><U+00A2>"
    << <<195, 162, 226, 8218, 172, 194, 162>>,
      <<226, 8364, 162>> >>,
    \* line 29: "<U+00C3><U+00A2><U+00E2><U+201A><U+00AC><U+00E2><U+20AC>" -> "<U+00E2><U+20AC><U+201D>"
    << <<195, 162, 226, 8218, 172, 226, 8364>>,
      <<226, 8364, 8221>> >>,
    \* line 30: "<U+00C3><U+00A2><U+00C5><U+201C><U+00C2><U+00A8>" -> "<U+00E2><U+0153><U+00A8>"
    << <<195, 162, 197, 8220, 194, 168>>,
      <<226, 339, 168>> >>,
    \* line 31: "<U+00C3><U+00A2><U+00C5><U+00A1><U+00C2><U+00A1>" -> "<U+00E2><U+0161><U+00A1>"
    << <<195, 162, 197, 161, 194, 161>>,
      <<226, 353, 161>> >>,
    \* line 32: "<U+00C3><U+00A2><U+00C5><U+00A1><U+00E2><U+201E><U+00A2><U+00C3><U+00AF><U+00C2><U+00B8><U+00C2>" -> "<U+00E2><U+0161><U+2122><U+00EF><U+00B8>"
    << <<195, 162, 197, 161, 226, 8222, 162, 195, 175, 194, 184, 194>>,
      <<226, 353, 8482, 239, 184>> >>,
    \* line 33: "<U+00C3><U+00B0><U+00C5><U+00B8><U+00E2><U+20AC><U+00C2>" -> "<U+011F><U+0178><U+201D>"
    << <<195, 176, 197, 184, 226, 8364, 194>>,
      <<287, 376, 8221>> >>,
    \* line 34: "<U+00C3><U+00B0><U+00C5><U+00B8><U+00E2><U+20AC><U+00E2><U+20AC><U+02DC>" -> "<U+011F><U+0178><U+201D><U+2018>"
    << <<195, 176, 197, 184, 226, 8364, 226, 8364, 732>>,
      <<287, 376, 8221, 8216>> >>,
    \* line 35: "<U+00C3><U+00B0><U+00C5><U+00B8><U+00C5><U+00A1><U+00C2><U+00AA>" -> "<U+011F><U+0178><U+0161><U+00AA>"
    << <<195, 176, 197, 184, 197, 161, 194, 170>>,
      <<287, 376, 353, 170>> >>,
    \* line 36: "<U+00C3><U+00B0><U+00C5><U+00B8><U+00E2><U+20AC><U+02DC><U+00C2><U+00A4>" -> "<U+011F><U+0178><U+2018><U+00A4>"
    << <<195, 176, 197, 184, 226, 8364, 732, 194, 164>>,
      <<287, 376, 8216, 164>> >>,
    \* line 37: "<U+00C3><U+00B0><U+00C5><U+00B8><U+00C2><U+00E2><U+20AC><U+00B9><U+00C3><U+00AF><U+00C2><U+00B8><U+00C2>" -> "<U+011F><U+0178><U+2039><U+00EF><U+00B8>"
    << <<195, 176, 197, 184, 194, 226, 8364, 185, 195, 175, 194, 184, 194>>,
      <<287, 376, 8249, 239, 184>> >>,
    \* line 38: "<U+00C3><U+00A2><U+00C5><U+00A1><U+00E2><U+20AC><U+201C><U+00C3><U+00AF><U+00C2><U+00B8><U+00C2>" -> "<U+00E2><U+0161><U+2013><U+00EF><U+00B8>"
    << <<195, 162, 197, 161, 226, 8364, 8220, 195, 175, 194, 184, 194>>,
      <<226, 353, 8211, 239, 184>> >>,
    \* line 39: "<U+00C3><U+00A2><U+00C5><U+2019><U+00C2><U+00A8><U+00C3><U+00AF><U+00C2><U+00B8><U+00C2>" -> "<U+00E2><U+0152><U+00A8><U+00EF><U+00B8>"
    << <<195, 162, 197, 8217, 194, 168, 195, 175, 194, 184, 194>>,
      <<226, 338, 168, 239, 184>> >>,
    \* line 40: "<U+00C3><U+00B0><U+00C5><U+00B8><U+00E2><U+20AC><U+00BA><U+00E2><U+20AC><U+02DC>" -> "<U+011F><U+0178><U+203A><U+2018>"
    << <<195, 176, 197, 184, 226, 8364, 186, 226, 8364, 732>>,
      <<287, 376, 8250, 8216>> >>,
    \* line 41: "<U+00C3><U+00B0><U+00C5><U+00B8><U+00C2><U+00A7><U+00C2><U+00B9>" -> "<U+011F><U+0178><U+00A7><U+00B9>"
    << <<195, 176, 197, 184, 194, 167, 194, 185>>,
      <<287, 376, 167, 185>> >>,
    \* line 42: "<U+00C3><U+00B0><U+00C5><U+00B8><U+00E2><U+20AC><U+00E2><U+20AC><U+00A1>" -> "<U+011F><U+0178><U+201D><U+2021>"
    << <<195, 176, 197, 184, 226, 8364, 226, 8364, 161>>,
      <<287, 376, 8221, 8225>> >>,
    \* line 43: "<U+00C3><U+00B0><U+00C5><U+00B8><U+00E2><U+20AC><U+02DC><U+00C2><U+00C3><U+00AF><U+00C2><U+00B8><U+00C2>" -> "<U+011F><U+0178><U+2018><U+00EF><U+00B8>"
    << <<195, 176, 197, 184, 226, 8364, 732, 194, 195, 175, 194, 184, 194>>,
      <<287, 376, 8216, 239, 184>> >>,
    \* line 44: "<U+00C3><U+00B0><U+00C5><U+00B8><U+00E2><U+20AC><U+201D><U+00C5><U+201C><U+00C3><U+00AF><U+00C2><U+00B8><U+00C2>" -> "<U+011F><U+0178><U+2014><U+0153><U+00EF><U+00B8>"
    << <<195, 176, 197, 184, 226, 8364, 8221, 197, 8220, 195, 175, 194, 184, 194>>,
      <<287, 376, 8212, 339, 239, 184>> >>,
    \* line 45: "<U+00C3><U+00B0><U+00C5><U+00B8><U+00E2><U+20AC><U+0153><U+00E2><U+20AC><U+0161>" -> "<U+011F><U+0178><U+201C><U+201A>"
    << <<195, 176, 197, 184, 226, 8364, 339, 226, 8364, 353>>,
      <<287, 376, 8220, 8218>> >>,
    \* line 46: "<U+00C3><U+00B0><U+00C5><U+00B8><U+00E2><U+20AC><U+0153><U+00E2><U+20AC><U+201C>" -> "<U+011F><U+0178><U+201C><U+2013>"
    << <<195, 176, 197, 184, 226, 8364, 339, 226, 8364, 8220>>,
      <<287, 376, 8220, 8211>> >>,
    \* line 47: "<U+00C3><U+00B0><U+00C5><U+00B8><U+00E2><U+20AC><U+0153><U+00C2><U+00A5>" -> "<U+011F><U+0178><U+201C><U+00A5>"
    << <<195, 176, 197, 184, 226, 8364, 339, 194, 165>>,
      <<287, 376, 8220, 165>> >>,
    \* line 48: "<U+00C3><U+00B0><U+00C5><U+00B8><U+00E2><U+20AC><U+00C5><U+00BD>" -> "<U+011F><U+0178><U+201D>"
    << <<195, 176, 197, 184, 226, 8364, 197, 189>>,
      <<287, 376, 8221>> >>,
    \* line 49: "<U+00C3><U+00B0><U+00C5><U+00B8><U+00E2><U+20AC><U+2122><U+00C2><U+00AC>" -> "<U+011F><U+0178><U+2019><U+00AC>"
    << <<195, 176, 197, 184, 226, 8364, 8482, 194, 172>>,
      <<287, 376, 8217, 172>> >>,
    \* line 50: "<U+00C3><U+00B0><U+00C5><U+00B8><U+00C5><U+00A1><U+00C2><U+00AB>" -> "<U+011F><U+0178><U+0161><U+00AB>"
    << <<195, 176, 197, 184, 197, 161, 194, 171>>,
      <<287, 376, 353, 171>> >>,
    \* line 53: "<U+00C3><U+00A2><U+00C2><U+00C2><U+00A4><U+00C3><U+00AF><U+00C2><U+00B8><U+00C2>" -> "<U+00E2><U+00A4><U+00EF><U+00B8>"
    << <<195, 162, 194, 194, 164, 195, 175, 194, 184, 194>>,
      <<226, 164, 239, 184>> >>,
    \* line 54: "<U+00C3><U+00A2><U+00C2><U+00AC><U+00E2><U+20AC><U+00A0>" -> "<U+00E2><U+00AC><U+2020>"
    << <<195, 162, 194, 172, 226, 8364, 160>>,
      <<226, 172, 8224>> >>
  >>

\* fix_encoding.py:58-67, the items of the dict display box_replacements
box_replacements_items ==
  <<
    \* line 59: "<U+00C3><U+00A2><U+00E2><U+20AC><U+00C5><U+2019>" -> "<U+00E2><U+201D><U+0152>"
    << <<195, 162, 226, 8364, 197, 8217>>,
      <<226, 8221, 338>> >>,
    \* line 60: "<U+00C3><U+00A2><U+00E2><U+20AC><U+00E2><U+201A><U+00AC>" -> "<U+00E2><U+201D><U+20AC>"
    << <<195, 162, 226, 8364, 226, 8218, 172>>,
      <<226, 8221, 8364>> >>,
    \* line 61: "<U+00C3><U+00A2><U+00E2><U+20AC><U+00C2>" -> "<U+00E2><U+201D>"
    << <<195, 162, 226, 8364, 194>>,
      <<226, 8221>> >>,
    \* line 62: "<U+00C3><U+00A2><U+00E2><U+20AC><U+00E2><U+20AC><U+0161>" -> "<U+00E2><U+201D><U+201A>"
    << <<195, 162, 226, 8364, 226, 8364, 353>>,
      <<226, 8221, 8218>> >>,
    \* line 63: "<U+00C3><U+00A2><U+00E2><U+20AC><U+00C5><U+201C>" -> "<U+00E2><U+201D><U+0153>"
    << <<195, 162, 226, 8364, 197, 8220>>,
      <<226, 8221, 339>> >>,
    \* line 64: "<U+00C3><U+00A2><U+00E2><U+20AC><U+00C2><U+00A4>" -> "<U+00E2><U+201D><U+00A4>"
    << <<195, 162, 226, 8364, 194, 164>>,
      <<226, 8221, 164>> >>,
    \* line 65: "<U+00C3><U+00A2><U+00E2><U+20AC><U+00E2><U+20AC>" -> "<U+00E2><U+201D><U+201D>"
    << <<195, 162, 226, 8364, 226, 8364>>,
      <<226, 8221, 8221>> >>,
    \* line 66: "<U+00C3><U+00A2><U+00E2><U+20AC><U+00CB><U+0153>" -> "<U+00E2><U+201D><U+02DC>"
    << <<195, 162, 226, 8364, 203, 339>>,
      <<226, 8221, 732>> >>
  >>

\* fix_encoding.py:81, the literal head of pattern
\*   "### Web Setup"
WebSetupHeading ==
  <<35, 35, 35, 32, 87, 101, 98, 32, 83, 101, 116, 117, 112>>

\* fix_encoding.py:81, group 1 of pattern
\*   "\n---"
NewlineDivider ==
  <<10, 45, 45, 45>>

\* fix_encoding.py:86
\*   "The web dashboard (`web/`) is a full **Next.js 15** application:"
OldProse ==
  <<84, 104, 101, 32, 119, 101, 98, 32, 100, 97, 115, 104, 98, 111, 97, 114, 100, 32, 40, 96,
    119, 101, 98, 47, 96, 41, 32, 105, 115, 32, 97, 32, 102, 117, 108, 108, 32, 42, 42, 78,
    101, 120, 116, 46, 106, 115, 32, 49, 53, 42, 42, 32, 97, 112, 112, 108, 105, 99, 97, 116,
    105, 111, 110, 58>>

\* fix_encoding.py:87
\*   "The web dashboard (available at [helix-mind.ai](https://helix-mind.ai)) is a separate **Next.js 15** application:"
NewProse ==
  <<84, 104, 101, 32, 119, 101, 98, 32, 100, 97, 115, 104, 98, 111, 97, 114, 100, 32, 40, 97,
    118, 97, 105, 108, 97, 98, 108, 101, 32, 97, 116, 32, 91, 104, 101, 108, 105, 120, 45, 109,
    105, 110, 100, 46, 97, 105, 93, 40, 104, 116, 116, 112, 115, 58, 47, 47, 104, 101, 108,
    105, 120, 45, 109, 105, 110, 100, 46, 97, 105, 41, 41, 32, 105, 115, 32, 97, 32, 115, 101,
    112, 97, 114, 97, 116, 101, 32, 42, 42, 78, 101, 120, 116, 46, 106, 115, 32, 49, 53, 42,
    42, 32, 97, 112, 112, 108, 105, 99, 97, 116, 105, 111, 110, 58>>

\* fix_encoding2.py:9-11, the items of the dict display additional
additional_items ==
  <<
    \* line 10: "<U+00F0><U+0178>"<U+0161>" -> "<U+1F4DA>"
    << <<240, 376, 34, 353>>,
      <<128218>> >>
  >>

\* fix_encoding2.py:20, the text the regular expression pattern matches (the regex escapes
\* \r and \n denote CR and LF; no other character of it is special)
\*   "# Web dashboard\r\ncd web\r\nnpm install\r\nnpm run dev"
pattern ==
  <<35, 32, 87, 101, 98, 32, 100, 97, 115, 104, 98, 111, 97, 114, 100, 13, 10, 99, 100, 32,
    119, 101, 98, 13, 10, 110, 112, 109, 32, 105, 110, 115, 116, 97, 108, 108, 13, 10, 110,
    112, 109, 32, 114, 117, 110, 32, 100, 101, 118>>

\* fix_encoding2.py:21-22, replacement as re.sub expands it (template escapes \r \n become CR LF)
\*   "# Web dashboard (separate repository)\r\n# Visit https://helix-mind.ai for the web platform"
replacement_expanded ==
  <<35, 32, 87, 101, 98, 32, 100, 97, 115, 104, 98, 111, 97, 114, 100, 32, 40, 115, 101, 112,
    97, 114, 97, 116, 101, 32, 114, 101, 112, 111, 115, 105, 116, 111, 114, 121, 41, 13, 10,
    35, 32, 86, 105, 115, 105, 116, 32, 104, 116, 116, 112, 115, 58, 47, 47, 104, 101, 108,
    105, 120, 45, 109, 105, 110, 100, 46, 97, 105, 32, 102, 111, 114, 32, 116, 104, 101, 32,
    119, 101, 98, 32, 112, 108, 97, 116, 102, 111, 114, 109>>

\* fix_encoding2.py:25, pattern2 as a plain string: a raw literal, so backslash, r, backslash, n
\*   "# Web dashboard\\r\\ncd web\\r\\nnpm install\\r\\nnpm run dev"
pattern2 ==
  <<35, 32, 87, 101, 98, 32, 100, 97, 115, 104, 98, 111, 97, 114, 100, 92, 114, 92, 110, 99,
    100, 32, 119, 101, 98, 92, 114, 92, 110, 110, 112, 109, 32, 105, 110, 115, 116, 97, 108,
    108, 92, 114, 92, 110, 110, 112, 109, 32, 114, 117, 110, 32, 100, 101, 118>>

\* fix_encoding2.py:21, replacement as a plain string (raw literal, used by str.replace at line 27)
\*   "# Web dashboard (separate repository)\\r\\n# Visit https://helix-mind.ai for the web platform"
replacement ==
  <<35, 32, 87, 101, 98, 32, 100, 97, 115, 104, 98, 111, 97, 114, 100, 32, 40, 115, 101, 112,
    97, 114, 97, 116, 101, 32, 114, 101, 112, 111, 115, 105, 116, 111, 114, 121, 41, 92, 114,
    92, 110, 35, 32, 86, 105, 115, 105, 116, 32, 104, 116, 116, 112, 115, 58, 47, 47, 104, 101,
    108, 105, 120, 45, 109, 105, 110, 100, 46, 97, 105, 32, 102, 111, 114, 32, 116, 104, 101,
    32, 119, 101, 98, 32, 112, 108, 97, 116, 102, 111, 114, 109>>

\* final_fixes.py:9, first argument of content.replace
\*   "<U+00F0><U+0178>"<U+0161>"
DocEmojiCorrupted ==
  <<240, 376, 34, 353>>

\* final_fixes.py:9, second argument of content.replace
\*   "<U+1F4DA>"
DocEmojiCorrect ==
  <<128218>>

\* final_fixes.py:13, the literal head of the dev_section pattern
\*   "## <U+1F3D7><U+FE0F> Development"
DevHeading ==
  <<35, 35, 32, 127959, 65039, 32, 68, 101, 118, 101, 108, 111, 112, 109, 101, 110, 116>>

\* final_fixes.py:13, opening fence of group 2
\*   "```bash"
BashOpen ==
  <<96, 96, 96, 98, 97, 115, 104>>

\* final_fixes.py:13, closing fence of group 2
\*   "```"
Fence ==
  <<96, 96, 96>>

\* final_fixes.py:13, the divider that ends the dev_section pattern
\*   "---"
Divider ==
  <<45, 45, 45>>

\* final_fixes.py:22
\*   "# Web dashboard\ncd web\nnpm install\nnpm run dev"
LfCommands ==
  <<35, 32, 87, 101, 98, 32, 100, 97, 115, 104, 98, 111, 97, 114, 100, 10, 99, 100, 32, 119,
    101, 98, 10, 110, 112, 109, 32, 105, 110, 115, 116, 97, 108, 108, 10, 110, 112, 109, 32,
    114, 117, 110, 32, 100, 101, 118>>

\* final_fixes.py:23
\*   "# Web dashboard (separate repository)\n# Visit https://helix-mind.ai for the web platform"
LfCommandsNew ==
  <<35, 32, 87, 101, 98, 32, 100, 97, 115, 104, 98, 111, 97, 114, 100, 32, 40, 115, 101, 112,
    97, 114, 97, 116, 101, 32, 114, 101, 112, 111, 115, 105, 116, 111, 114, 121, 41, 10, 35,
    32, 86, 105, 115, 105, 116, 32, 104, 116, 116, 112, 115, 58, 47, 47, 104, 101, 108, 105,
    120, 45, 109, 105, 110, 100, 46, 97, 105, 32, 102, 111, 114, 32, 116, 104, 101, 32, 119,
    101, 98, 32, 112, 108, 97, 116, 102, 111, 114, 109>>

\* final_fixes.py:29
\*   "# Web dashboard\r\ncd web\r\nnpm install\r\nnpm run dev"
CrlfCommands ==
  <<35, 32, 87, 101, 98, 32, 100, 97, 115, 104, 98, 111, 97, 114, 100, 13, 10, 99, 100, 32,
    119, 101, 98, 13, 10, 110, 112, 109, 32, 105, 110, 115, 116, 97, 108, 108, 13, 10, 110,
    112, 109, 32, 114, 117, 110, 32, 100, 101, 118>>

\* final_fixes.py:30
\*   "# Web dashboard (separate repository)\r\n# Visit https://helix-mind.ai for the web platform"
CrlfCommandsNew ==
  <<35, 32, 87, 101, 98, 32, 100, 97, 115, 104, 98, 111, 97, 114, 100, 32, 40, 115, 101, 112,
    97, 114, 97, 116, 101, 32, 114, 101, 112, 111, 115, 105, 116, 111, 114, 121, 41, 13, 10,
    35, 32, 86, 105, 115, 105, 116, 32, 104, 116, 116, 112, 115, 58, 47, 47, 104, 101, 108,
    105, 120, 45, 109, 105, 110, 100, 46, 97, 105, 32, 102, 111, 114, 32, 116, 104, 101, 32,
    119, 101, 98, 32, 112, 108, 97, 116, 102, 111, 114, 109>>

\* final_fixes.py:37, literal 1 of the video_section pattern
\*   "<div align="center">"
DivOpen ==
  <<60, 100, 105, 118, 32, 97, 108, 105, 103, 110, 61, 34, 99, 101, 110, 116, 101, 114, 34, 62>>

\* final_fixes.py:37, literal 2 of the video_section pattern
\*   "<video src="assets/brain_3d_vision.mp4""
VideoTag ==
  <<60, 118, 105, 100, 101, 111, 32, 115, 114, 99, 61, 34, 97, 115, 115, 101, 116, 115, 47, 98,
    114, 97, 105, 110, 95, 51, 100, 95, 118, 105, 115, 105, 111, 110, 46, 109, 112, 52, 34>>

\* final_fixes.py:37, literal 3 of the video_section pattern
\*   "<p><em>Interactive 3D brain visualization"
CaptionOpen ==
  <<60, 112, 62, 60, 101, 109, 62, 73, 110, 116, 101, 114, 97, 99, 116, 105, 118, 101, 32, 51,
    68, 32, 98, 114, 97, 105, 110, 32, 118, 105, 115, 117, 97, 108, 105, 122, 97, 116, 105,
    111, 110>>

\* final_fixes.py:37, literal 4 of the video_section pattern (end of group 1)
\*   "</em></p>"
CaptionClose ==
  <<60, 47, 101, 109, 62, 60, 47, 112, 62>>

\* final_fixes.py:37, the literal of group 2, after \s*
\*   "</div>"
DivClose ==
  <<60, 47, 100, 105, 118, 62>>

\* final_fixes.py:41, the note paragraph inserted between group 1 and group 2
\*   "\n  <p><small><em>Note: The video may not auto-play in GitHub's web view. You can <a href="assets/brain_3d_vision.mp4" download>download it directly</a> or clone the repository to view it.</em></small></p>"
VideoNote ==
  <<10, 32, 32, 60, 112, 62, 60, 115, 109, 97, 108, 108, 62, 60, 101, 109, 62, 78, 111, 116,
    101, 58, 32, 84, 104, 101, 32, 118, 105, 100, 101, 111, 32, 109, 97, 121, 32, 110, 111,
    116, 32, 97, 117, 116, 111, 45, 112, 108, 97, 121, 32, 105, 110, 32, 71, 105, 116, 72, 117,
    98, 39, 115, 32, 119, 101, 98, 32, 118, 105, 101, 119, 46, 32, 89, 111, 117, 32, 99, 97,
    110, 32, 60, 97, 32, 104, 114, 101, 102, 61, 34, 97, 115, 115, 101, 116, 115, 47, 98, 114,
    97, 105, 110, 95, 51, 100, 95, 118, 105, 115, 105, 111, 110, 46, 109, 112, 52, 34, 32, 100,
    111, 119, 110, 108, 111, 97, 100, 62, 100, 111, 119, 110, 108, 111, 97, 100, 32, 105, 116,
    32, 100, 105, 114, 101, 99, 116, 108, 121, 60, 47, 97, 62, 32, 111, 114, 32, 99, 108, 111,
    110, 101, 32, 116, 104, 101, 32, 114, 101, 112, 111, 115, 105, 116, 111, 114, 121, 32, 116,
    111, 32, 118, 105, 101, 119, 32, 105, 116, 46, 60, 47, 101, 109, 62, 60, 47, 115, 109, 97,
    108, 108, 62, 60, 47, 112, 62>>

(***************************************************************************)
(* Texts the input files are built from.                                   *)
(***************************************************************************)
\* a command line of the code block that is not the web-dashboard sequence
\*   "npm test"
TxtBashBody ==
  <<110, 112, 109, 32, 116, 101, 115, 116>>

\* the rest of the video tag line
\*   " controls></video>\n"
TxtVideoRest ==
  <<32, 99, 111, 110, 116, 114, 111, 108, 115, 62, 60, 47, 118, 105, 100, 101, 111, 62, 10>>

\* the caption text after its fixed beginning
\*   " of the spiral memory"
TxtCaptionRest ==
  <<32, 111, 102, 32, 116, 104, 101, 32, 115, 112, 105, 114, 97, 108, 32, 109, 101, 109, 111,
    114, 121>>

\* another emphasised paragraph
\*   "  <p><em>Built with care</em></p>\n"
TxtOtherPara ==
  <<32, 32, 60, 112, 62, 60, 101, 109, 62, 66, 117, 105, 108, 116, 32, 119, 105, 116, 104, 32,
    99, 97, 114, 101, 60, 47, 101, 109, 62, 60, 47, 112, 62, 10>>

\* a heading text that follows the documentation icon
\*   " Documentation\n"
TxtDocHeading ==
  <<32, 68, 111, 99, 117, 109, 101, 110, 116, 97, 116, 105, 111, 110, 10>>

\* body text of a subsection
\*   "Run the dashboard locally."
TxtBody ==
  <<82, 117, 110, 32, 116, 104, 101, 32, 100, 97, 115, 104, 98, 111, 97, 114, 100, 32, 108,
    111, 99, 97, 108, 108, 121, 46>>

(***************************************************************************)
(* fix_encoding.py                                                         *)
(***************************************************************************)
\* fix_encoding.py:9-55
replacements == DictUpdate(<<>>, replacements_items)

\* fix_encoding.py:58-67
box_replacements == DictUpdate(<<>>, box_replacements_items)

\* fix_encoding.py:70
all_replacements == DictUpdate(replacements, box_replacements)

\* fix_encoding.py:74-75 (and fix_encoding2.py:14-15), the body of the loop
\* for one item: a key that occurs in the buffer has every occurrence replaced
ReplaceItem(item, c) ==
  IF Contains(c, item[1]) THEN Replace(c, item[1], item[2]) ELSE c

\* fix_encoding.py:73-75 (and fix_encoding2.py:13-15), the iterations of the
\* loop for the items lo..hi, in the order of the dict: those of the first
\* half of the range, then those of the second half on the buffer they leave
\* (an empty buffer is left as it is by every item)
RECURSIVE ReplaceItemsRange(_, _, _, _)
ReplaceItemsRange(items, lo, hi, c) ==
  IF c = <<>> \/ lo > hi THEN c
  ELSE IF lo = hi THEN ReplaceItem(items[lo], c)
  ELSE LET mid == (lo + hi) \div 2
       IN  ReplaceItemsRange(items, mid + 1, hi, ReplaceItemsRange(items, lo, mid, c))

ReplaceItems(items, c) == ReplaceItemsRange(items, 1, Len(items), c)

\* fix_encoding.py:81-82, re.sub(r'### Web Setup.*?(\n---)', r'\1', content,
\* flags=re.DOTALL) from position `from` on: each heading that a '\n---'
\* follows is replaced, with everything up to the first such divider, by the
\* divider; the scan goes on after the divider
RECURSIVE WebSetupSubFrom(_, _)
WebSetupSubFrom(c, from) ==
  LET h == Find(c, WebSetupHeading, from)
      d == IF h = 0 THEN 0 ELSE Find(c, NewlineDivider, h + Len(WebSetupHeading))
  IN  IF d = 0
      THEN SubSeq(c, from, Len(c))
      ELSE SubSeq(c, from, h - 1) \o NewlineDivider
             \o WebSetupSubFrom(c, d + Len(NewlineDivider))

\* the substitution with an empty replacement in place of r'\1'
WebSetupSubDropsDivider(c) ==
  LET h == Find(c, WebSetupHeading, 1)
      d == IF h = 0 THEN 0 ELSE Find(c, NewlineDivider, h + Len(WebSetupHeading))
  IN  IF d = 0 THEN c
      ELSE SubSeq(c, 1, h - 1) \o SubSeq(c, d + Len(NewlineDivider), Len(c))

WebSetupSub(c) == WebSetupSubFrom(c, 1)

(***************************************************************************)
(* fix_encoding2.py                                                        *)
(***************************************************************************)
\* fix_encoding2.py:9-11
additional == DictUpdate(<<>>, additional_items)

\* fix_encoding2.py:22, re.sub(pattern, replacement, content): the pattern is
\* a literal text, so the substitution replaces its non-overlapping
\* occurrences from left to right by the expanded template
DashboardSub(c) == Replace(c, pattern, replacement_expanded)

\* fix_encoding2.py:26-27
DashboardRawReplace(c) ==
  IF Contains(c, pattern2) THEN Replace(c, pattern2, replacement) ELSE c

(***************************************************************************)
(* final_fixes.py                                                          *)
(***************************************************************************)
\* the value None of dev_section and of video_section
NoMatch == [found |-> FALSE, full_match |-> <<>>, before |-> <<>>,
            code_block |-> <<>>, after |-> <<>>]

\* final_fixes.py:13, re.search of the DOTALL pattern
\*   (## ... Development.*?)(```bash.*?```)(.*?)---
\* with final_fixes.py:15-18.  Every .*? is lazy and matches any character,
\* so the match starts at the first heading and takes the first '```bash'
\* after it, the first '```' after that and the first '---' after that.
DevSearch(c) ==
  LET h == Find(c, DevHeading, 1)
      b == IF h = 0 THEN 0 ELSE Find(c, BashOpen, h + Len(DevHeading))
      f == IF b = 0 THEN 0 ELSE Find(c, Fence, b + Len(BashOpen))
      d == IF f = 0 THEN 0 ELSE Find(c, Divider, f + Len(Fence))
  IN  IF d = 0 THEN NoMatch
      ELSE [found      |-> TRUE,
            full_match |-> SubSeq(c, h, d + Len(Divider) - 1),
            before     |-> SubSeq(c, h, b - 1),
            code_block |-> SubSeq(c, b, f + Len(Fence) - 1),
            after      |-> SubSeq(c, f + Len(Fence), d - 1)]

\* the replacement of the first LF command sequence only
NewCodeBlockFirstOnly(code_block) ==
  LET i == Find(code_block, LfCommands, 1)
  IN  IF i = 0
      THEN Replace(code_block, CrlfCommands, CrlfCommandsNew)
      ELSE SubSeq(code_block, 1, i - 1) \o LfCommandsNew
             \o SubSeq(code_block, i + Len(LfCommands), Len(code_block))

\* final_fixes.py:21-31: the LF command sequence is replaced; the CRLF
\* sequence is tried when that left the block as it was
NewCodeBlock(code_block) ==
  LET first == Replace(code_block, LfCommands, LfCommandsNew)
  IN  IF first = code_block
      THEN Replace(code_block, CrlfCommands, CrlfCommandsNew)
      ELSE first

\* final_fixes.py:34
DevRewrite(c, m, ncb) == Replace(c, m.full_match, m.before \o ncb \o m.after)

\* final_fixes.py:37, re.search of the DOTALL pattern
\*   (<div align="center">.*?<video ...mp4".*?<p><em>Interactive ....*?</em></p>)(\s*</div>)
\* with final_fixes.py:39-40.  group 1 ends at the first '</em></p>' after
\* the caption's beginning that only whitespace separates from a '</div>'.
VideoSearch(c) ==
  LET a   == Find(c, DivOpen, 1)
      v   == IF a = 0 THEN 0 ELSE Find(c, VideoTag, a + Len(DivOpen))
      p   == IF v = 0 THEN 0 ELSE Find(c, CaptionOpen, v + Len(VideoTag))
      ends == IF p = 0 THEN {}
              ELSE {e \in Occurrences(c, CaptionClose, p + Len(CaptionOpen)) :
                      LET q == SkipSpaces(c, e + Len(CaptionClose))
                      IN  q + Len(DivClose) - 1 <= Len(c)
                          /\ SubSeq(c, q, q + Len(DivClose) - 1) = DivClose}
  IN  IF ends = {} THEN NoMatch
      ELSE LET e == Least(ends)
               g == e + Len(CaptionClose)
               q == SkipSpaces(c, g)
           IN  [found      |-> TRUE,
                full_match |-> SubSeq(c, a, q + Len(DivClose) - 1),
                before     |-> SubSeq(c, a, g - 1),
                code_block |-> <<>>,
                after      |-> SubSeq(c, g, q + Len(DivClose) - 1)]

\* the note put after group 2 instead of between the groups
VideoRewriteNoteLast(c, m) == Replace(c, m.full_match, m.before \o m.after \o VideoNote)

\* final_fixes.py:41-42
VideoRewrite(c, m) == Replace(c, m.full_match, m.before \o VideoNote \o m.after)

(***************************************************************************)
(* The README.md files the runs start from.                                *)
(***************************************************************************)
\* the texts made of at most n segments of S
SeqsUpTo(S, n) == UNION {[1..k -> S] : k \in 0..n}

\* the corrupted sequences, in the order the loop takes them
Keys == {all_replacements[i][1] : i \in 1..Len(all_replacements)}

\* a corrupted four-byte sequence cut short after its third byte
TruncatedKey == SubSeq(all_replacements[2][1], 1, 6)

\* a '---' divider on a line of its own
DividerLine == LF \o Divider \o LF

\* a Web Setup subsection, up to the divider that ends it
WebSetupSection == WebSetupHeading \o LF \o TxtBody \o LF

EncSegs ==
  { all_replacements[2][1], TruncatedKey, all_replacements[15][1],
    all_replacements[28][1], DividerLine, WebSetupSection, OldProse }

EncDocs == {Concat(ss) : ss \in SeqsUpTo(EncSegs, MaxSegs)} \cup Keys

Enc2Segs == { additional[1][1], pattern, LfCommands, pattern2, LF }

Enc2Docs == {Concat(ss) : ss \in SeqsUpTo(Enc2Segs, MaxSegs)}

\* the Development section with a bash block holding body
DevPart(body) ==
  DevHeading \o LF \o LF \o BashOpen \o LF \o body \o LF \o Fence \o LF

DevChoices ==
  { <<>>, DevPart(TxtBashBody), DevPart(TxtBashBody \o LF \o LfCommands),
    DevPart(LfCommands \o LF \o LfCommands) }

\* the centered block of the brain video and its caption
VideoBlock ==
  DivOpen \o LF \o VideoTag \o TxtVideoRest \o CaptionOpen \o TxtCaptionRest
    \o CaptionClose \o LF \o DivClose \o LF

VideoChoices == { <<>>, VideoBlock, VideoBlock \o VideoBlock }

\* another centered block that ends with an emphasised paragraph
OtherBlock == DivOpen \o LF \o TxtOtherPara \o DivClose \o LF

TailChoices == { <<>>, OtherBlock, DocEmojiCorrupted \o TxtDocHeading }

\* every line ending of the file is eol
WithEol(doc, eol) == Replace(doc, LF, eol)

FinalDocs ==
  { WithEol(dev \o Repeat(DividerLine, n) \o video \o tail, eol) :
      dev \in DevChoices, n \in 0..MaxDividers, video \in VideoChoices,
      tail \in TailChoices, eol \in {LF, CRLF} }

(***************************************************************************)
(* State.                                                                  *)
(***************************************************************************)
VARIABLES
  README,          \* the text of the file README.md
  linesep,         \* os.linesep of the platform the scripts run on
  script,          \* the script of the current (or last) run
  pc,              \* how far the run has come
  content,         \* the global `content` of the running script
  dev_section,     \* final_fixes.py: the match of line 13 and its groups
  new_code_block,  \* final_fixes.py: the global of lines 21-31
  video_section,   \* final_fixes.py: the match of line 37 and its groups
  stdout,          \* the lines printed so far
  hist,            \* the texts README.md has held: at the start, and as each run left it
  runs             \* the number of runs started

vars == <<README, linesep, script, pc, content, dev_section, new_code_block,
          video_section, stdout, hist, runs>>

Scripts == {"fix_encoding", "fix_encoding2", "final_fixes"}

\* no script is running: before the first run and after a run has exited
Idle == {"idle", "done", "read_failed", "write_failed"}

\* the confirmation line of a script
Confirmation(s) ==
  CASE s = "fix_encoding"  -> "Fixed encoding in README.md"
    [] s = "fix_encoding2" -> "Applied additional fixes"
    [] s = "final_fixes"   -> "Applied final fixes"

InitWith(docs) ==
  /\ README \in docs
  /\ linesep \in {LF, CRLF}
  /\ script = "none"
  /\ pc = "idle"
  /\ content = <<>>
  /\ dev_section = NoMatch
  /\ new_code_block = <<>>
  /\ video_section = NoMatch
  /\ stdout = <<>>
  /\ hist = <<[script |-> "none", text |-> README]>>
  /\ runs = 0

(***************************************************************************)
(* The steps all three scripts share.                                      *)
(***************************************************************************)
\* with open('README.md', 'r', encoding='utf-8') as f: content = f.read()
\* in a fresh interpreter
Read(s) ==
  /\ pc \in Idle
  /\ runs < MaxRuns
  /\ runs' = runs + 1
  /\ script' = s
  /\ content' = UniversalNewlines(README)
  /\ dev_section' = NoMatch
  /\ new_code_block' = <<>>
  /\ video_section' = NoMatch
  /\ pc' = "read"
  /\ UNCHANGED <<README, linesep, stdout, hist>>

\* the open() or the f.read() raises (no such file, no permission, bytes
\* that are not UTF-8): the exception ends the script
ReadFail(s) ==
  /\ pc \in Idle
  /\ runs < MaxRuns
  /\ runs' = runs + 1
  /\ script' = s
  /\ content' = <<>>
  /\ dev_section' = NoMatch
  /\ new_code_block' = <<>>
  /\ video_section' = NoMatch
  /\ pc' = "read_failed"
  /\ UNCHANGED <<README, linesep, stdout, hist>>

\* with open('README.md', 'w', encoding='utf-8') as f: f.write(content)
Write ==
  /\ pc = "patched"
  /\ README' = WriteNewlines(content, linesep)
  /\ hist' = Append(hist, [script |-> script, text |-> README'])
  /\ pc' = "written"
  /\ UNCHANGED <<linesep, script, content, dev_section, new_code_block,
                 video_section, stdout, runs>>

\* the open() for writing raises and the file is as it was, or the write
\* raises after the open() has truncated the file
WriteFail ==
  /\ pc = "patched"
  /\ \E left \in {README, <<>>} :
       /\ README' = left
       /\ hist' = IF left = README THEN hist
                  ELSE Append(hist, [script |-> "failed", text |-> left])
  /\ pc' = "write_failed"
  /\ UNCHANGED <<linesep, script, content, dev_section, new_code_block,
                 video_section, stdout, runs>>

\* the print() moved before the write
ConfirmBeforeWrite ==
  /\ pc = "patched"
  /\ stdout' = Append(stdout, Confirmation(script))
  /\ pc' = "done"
  /\ UNCHANGED <<README, linesep, script, content, dev_section, new_code_block,
                 video_section, hist, runs>>

\* the print() that ends each script
Confirm ==
  /\ pc = "written"
  /\ stdout' = Append(stdout, Confirmation(script))
  /\ pc' = "done"
  /\ UNCHANGED <<README, linesep, script, content, dev_section, new_code_block,
                 video_section, hist, runs>>

\* a step that only rewrites `content`
Rewrite(s, from, to, new) ==
  /\ script = s
  /\ pc = from
  /\ content' = new
  /\ pc' = to
  /\ UNCHANGED <<README, linesep, script, dev_section, new_code_block,
                 video_section, stdout, hist, runs>>

(***************************************************************************)
(* fix_encoding.py                                                         *)
(***************************************************************************)
\* fix_encoding.py:73-75
EncTable ==
  Rewrite("fix_encoding", "read", "replaced", ReplaceItems(all_replacements, content))

\* fix_encoding.py:81-82
EncWebSetup ==
  Rewrite("fix_encoding", "replaced", "web_setup_removed", WebSetupSub(content))

\* fix_encoding.py:85-88
EncProse ==
  Rewrite("fix_encoding", "web_setup_removed", "patched",
          Replace(content, OldProse, NewProse))

InitEnc == InitWith(EncDocs)

NextEnc ==
  \/ Read("fix_encoding")
  \/ ReadFail("fix_encoding")
  \/ EncTable
  \/ EncWebSetup
  \/ EncProse
  \/ Write
  \/ WriteFail
  \/ Confirm

SpecEnc == InitEnc /\ [][NextEnc]_vars

(***************************************************************************)
(* fix_encoding2.py                                                        *)
(***************************************************************************)
\* fix_encoding2.py:13-15
Enc2Additional ==
  Rewrite("fix_encoding2", "read", "replaced", ReplaceItems(additional, content))

\* fix_encoding2.py:20-22
Enc2Dashboard ==
  Rewrite("fix_encoding2", "replaced", "dashboard_replaced", DashboardSub(content))

\* fix_encoding2.py:25-27
Enc2DashboardRaw ==
  Rewrite("fix_encoding2", "dashboard_replaced", "patched", DashboardRawReplace(content))

InitEnc2 == InitWith(Enc2Docs)

NextEnc2 ==
  \/ Read("fix_encoding2")
  \/ ReadFail("fix_encoding2")
  \/ Enc2Additional
  \/ Enc2Dashboard
  \/ Enc2DashboardRaw
  \/ Write
  \/ WriteFail
  \/ Confirm

SpecEnc2 == InitEnc2 /\ [][NextEnc2]_vars

(***************************************************************************)
(* final_fixes.py                                                          *)
(***************************************************************************)
\* final_fixes.py:9
FinalEmoji ==
  Rewrite("final_fixes", "read", "replaced",
          Replace(content, DocEmojiCorrupted, DocEmojiCorrect))

\* final_fixes.py:13-34
FinalDev ==
  /\ script = "final_fixes"
  /\ pc = "replaced"
  /\ dev_section' = DevSearch(content)
  /\ new_code_block' = IF dev_section'.found
                        THEN NewCodeBlock(dev_section'.code_block)
                        ELSE <<>>
  /\ content' = IF dev_section'.found
                 THEN DevRewrite(content, dev_section', new_code_block')
                 ELSE content
  /\ pc' = "dev_done"
  /\ UNCHANGED <<README, linesep, script, video_section, stdout, hist, runs>>

\* final_fixes.py:37-42
FinalVideo ==
  /\ script = "final_fixes"
  /\ pc = "dev_done"
  /\ video_section' = VideoSearch(content)
  /\ content' = IF video_section'.found
                 THEN VideoRewrite(content, video_section')
                 ELSE content
  /\ pc' = "patched"
  /\ UNCHANGED <<README, linesep, script, dev_section, new_code_block,
                 stdout, hist, runs>>

InitFinal == InitWith(FinalDocs)

NextFinal ==
  \/ Read("final_fixes")
  \/ ReadFail("final_fixes")
  \/ FinalEmoji
  \/ FinalDev
  \/ FinalVideo
  \/ Write
  \/ WriteFail
  \/ Confirm

SpecFinal == InitFinal /\ [][NextFinal]_vars

(***************************************************************************)
(* Any script on any of the files.                                         *)
(***************************************************************************)
Init == InitWith(EncDocs \cup Enc2Docs \cup FinalDocs)

Next == NextEnc \/ NextEnc2 \/ NextFinal

Spec == Init /\ [][Next]_vars

(***************************************************************************)
(* Properties.                                                             *)
(***************************************************************************)
\* the text the running script has read: README.md is not written before the
\* write step, so until then it still holds what was read
ReadText == UniversalNewlines(README)

\* the note paragraph, without the line break and indentation before it
NoteParagraph == SubSeq(VideoNote, 4, Len(VideoNote))

\* the dict with item i taken first and the other items in their order
MoveToFront(items, i) ==
  <<items[i]>> \o SubSeq(items, 1, i - 1) \o SubSeq(items, i + 1, Len(items))

\* C1: a run of a script that directly follows a completed run of the same
\* script leaves README.md exactly as that run left it.
C1_SecondRunChangesNothing ==
  \A i \in 3..Len(hist) :
    (hist[i].script \in Scripts /\ hist[i - 1].script = hist[i].script)
      => hist[i].text = hist[i - 1].text

\* C2: after the replacement loop of fix_encoding.py, no key of
\* all_replacements that occurred in the buffer read occurs in the buffer.
C2_NoKeyLeft ==
  (script = "fix_encoding" /\ pc = "replaced") =>
    \A i \in 1..Len(all_replacements) :
      Contains(ReadText, all_replacements[i][1])
        => ~Contains(content, all_replacements[i][1])

\* C3: a buffer that holds neither the LF nor the CRLF web-dashboard command
\* sequence is left exactly as it is by the Development-section step of
\* final_fixes.py.
C3_NoCommandsNoChange ==
  [][(/\ script = "final_fixes"
      /\ pc = "replaced"
      /\ ~Contains(content, LfCommands)
      /\ ~Contains(content, CrlfCommands)) => content' = content]_vars

\* the buffer holds exactly one '### Web Setup' heading, a divider before it
\* and a divider after it
WebSetupBetweenDividers(c) ==
  LET h == Find(c, WebSetupHeading, 1)
  IN  /\ Count(c, WebSetupHeading) = 1
      /\ Find(c, NewlineDivider, 1) \in 1..(h - 1)
      /\ Find(c, NewlineDivider, h + Len(WebSetupHeading)) # 0

\* C4: when a Web Setup subsection lies between two dividers, the removal
\* step of fix_encoding.py leaves, from the place of the heading on, just the
\* divider that ended the subsection: the text before the heading, then that
\* one divider, then the text that followed it.
C4_WebSetupRemoved ==
  [][(/\ script = "fix_encoding"
      /\ pc = "replaced"
      /\ pc' = "web_setup_removed"
      /\ WebSetupBetweenDividers(content)) =>
        LET h == Find(content, WebSetupHeading, 1)
            d == Find(content, NewlineDivider, h + Len(WebSetupHeading))
        IN  /\ content' = SubSeq(content, 1, h - 1) \o NewlineDivider
                            \o SubSeq(content, d + Len(NewlineDivider), Len(content))
            /\ Occurrences(content', NewlineDivider, h)
                 \cap (h..(h + Len(NewlineDivider))) = {h}
            /\ ~Contains(content', WebSetupHeading)]_vars

C4_Witness ==
  /\ script = "fix_encoding"
  /\ pc = "web_setup_removed"
  /\ WebSetupBetweenDividers(ReplaceItems(all_replacements, ReadText))
  /\ Count(content, NewlineDivider) = 2
  /\ Len(hist) = 1

\* where the caption paragraph of the one video block of the buffer ends, 0
\* when the buffer has no centered block with the video tag and the caption
\* or has more than one video tag
CaptionEnd(c) ==
  LET a == Find(c, DivOpen, 1)
      v == IF a = 0 THEN 0 ELSE Find(c, VideoTag, a + Len(DivOpen))
      p == IF v = 0 THEN 0 ELSE Find(c, CaptionOpen, v + Len(VideoTag))
      e == IF p = 0 THEN 0 ELSE Find(c, CaptionClose, p + Len(CaptionOpen))
  IN  IF e = 0 \/ Count(c, VideoTag) # 1 THEN 0 ELSE e + Len(CaptionClose) - 1

\* the closing '</div>' follows position g of the buffer, after whitespace at most
DivCloseFollows(c, g) ==
  LET q == SkipSpaces(c, g + 1)
  IN  q + Len(DivClose) - 1 <= Len(c) /\ SubSeq(c, q, q + Len(DivClose) - 1) = DivClose

C6_ReadSubstituteWriteConfirm ==
  [][/\ (pc' \in {"read", "read_failed"} /\ pc' # pc) => pc \in Idle
     /\ pc' = "read_failed" =>
          (README' = README /\ stdout' = stdout /\ hist' = hist)
     /\ content' # content =>
          (pc \in Idle \/ pc \in {"read", "replaced", "web_setup_removed",
                                   "dashboard_replaced", "dev_done"})
     /\ README' # README => (pc = "patched" /\ pc' \in {"written", "write_failed"})
     /\ pc' = "written" => (pc = "patched" /\ README' = WriteNewlines(content, linesep))
     /\ stdout' # stdout =>
          (/\ pc = "written"
           /\ pc' = "done"
           /\ stdout' = Append(stdout, Confirmation(script))
           /\ README = hist[Len(hist)].text
           /\ hist[Len(hist)].script = script)]_vars

C6_Witness ==
  /\ pc = "read_failed"
  /\ stdout # <<>>
  /\ README = hist[Len(hist)].text
  /\ hist[Len(hist)].script = "fix_encoding"

\* C7: when the bash block of the Development section holds the LF command
\* sequence, the Development-section step of final_fixes.py changes that
\* sequence only: the text before the heading, the section around the block,
\* the '---' that ends the matched span and the text after it stay.
C7_OnlyCommandsChange ==
  [][(/\ script = "final_fixes"
      /\ pc = "replaced"
      /\ pc' = "dev_done"
      /\ dev_section'.found
      /\ Contains(dev_section'.code_block, LfCommands)) =>
        LET m == dev_section'
            h == Find(content, DevHeading, 1)
        IN  content' = SubSeq(content, 1, h - 1) \o m.before
                         \o Replace(m.code_block, LfCommands, LfCommandsNew)
                         \o m.after \o Divider
                         \o SubSeq(content, h + Len(m.full_match), Len(content))]_vars

\* C8: the buffer the replacement loop of fix_encoding.py leaves is the one
\* any other order of the items leaves; the orders compared are those that
\* take one item first and the others in table order.
C8_OrderDoesNotMatter ==
  (script = "fix_encoding" /\ pc = "replaced") =>
    \A i \in 1..Len(all_replacements) :
      ReplaceItems(MoveToFront(all_replacements, i), ReadText) = content

\* C9: in final_fixes.py a matched code block that holds the LF command
\* sequence has every LF occurrence replaced by the LF replacement and no
\* CRLF occurrence touched; one that holds only the CRLF sequence has it
\* replaced by the CRLF replacement; one that holds neither is unchanged;
\* never are both variants replaced in one run.
C9_OneVariantReplaced ==
  (script = "final_fixes" /\ pc = "dev_done" /\ dev_section.found) =>
    LET cb  == dev_section.code_block
        ncb == new_code_block
    IN  /\ Contains(cb, LfCommands) =>
             /\ ~Contains(ncb, LfCommands)
             /\ Count(ncb, LfCommandsNew)
                  = Count(cb, LfCommandsNew) + Count(cb, LfCommands)
             /\ Count(ncb, CrlfCommands) = Count(cb, CrlfCommands)
             /\ Count(ncb, CrlfCommandsNew) = Count(cb, CrlfCommandsNew)
        /\ (~Contains(cb, LfCommands) /\ Contains(cb, CrlfCommands)) =>
             /\ ~Contains(ncb, CrlfCommands)
             /\ Count(ncb, CrlfCommandsNew)
                  = Count(cb, CrlfCommandsNew) + Count(cb, CrlfCommands)
        /\ (~Contains(cb, LfCommands) /\ ~Contains(cb, CrlfCommands)) => ncb = cb
        /\ ~(/\ Count(ncb, LfCommands) < Count(cb, LfCommands)
             /\ Count(ncb, CrlfCommands) < Count(cb, CrlfCommands))

C9_Witness ==
  /\ script = "final_fixes"
  /\ pc = "dev_done"
  /\ dev_section.found
  /\ Count(dev_section.code_block, LfCommands) = 2
  /\ Count(new_code_block, LfCommandsNew) = 2

\* C10: once a run of final_fixes.py has inserted the note, every later run
\* of final_fixes.py leaves README.md with as many note paragraphs as the
\* first run left.
C10_NoFurtherNote ==
  \A i \in 3..Len(hist) :
    (/\ \A j \in 2..i : hist[j].script = "final_fixes"
     /\ Count(hist[2].text, NoteParagraph) > Count(hist[1].text, NoteParagraph))
      => Count(hist[i].text, NoteParagraph) = Count(hist[2].text, NoteParagraph)
====
